---------------------------- MODULE Spec2Model ----------------------------
(***************************************************************************)
(* A model of the RTP media session engine of src/src/main.rs:             *)
(*   - allocate_port / bind_rtp_port: the port allocator,                  *)
(*   - rtp_session_handler: the per-session ingress loop and the registry, *)
(*   - send_welcome_announcement: the paced egress of the announcement,    *)
(*   - pcm16_to_g711_ulaw: the G.711 mu-law encoder.                       *)
(***************************************************************************)
EXTENDS Integers, Sequences, FiniteSets, TLC

(***************************************************************************)
(* Bounds of the model.                                                    *)
(***************************************************************************)
\* Number of allocate_port requests the control plane makes.
NumCalls == 2
\* Number of UDP ports the configuration may draw its range from.
NumPorts == 2
\* Number of remote peers that send datagrams to a session.
NumPeers == 2
\* Number of recv_from completions of one session.
MaxDatagrams == 2
\* Length of the longest announcement source, in samples.
MaxSamples == 321

(***************************************************************************)
(* Program constants.                                                      *)
(***************************************************************************)
\* for _ in 0..100: the retry ceiling of bind_rtp_port.
MaxAttemptsInclusive == 100 + 1
MaxAttempts == 100

\* let samples_per_packet = 160;
samples_per_packet == 160
\* let payload_type: u8 = 0; // PCMU
payload_type == 0
\* const BIAS: i16 = 0x84;
BIAS == 132
\* const CLIP: i16 = 32635;
CLIP == 32635

Calls == 1..NumCalls
Ports == 30000..(30000 + NumPorts - 1)
Peers == 1..NumPeers

VARIABLES
    min_port,          \* settings.rtp.min_port
    max_port,          \* settings.rtp.max_port
    bound,             \* the ports that hold a bound UDP socket on the host
    active_sessions,   \* Arc<Mutex<Vec<u16>>>: the Session Registry
    call,              \* the allocate_port requests: where each is, the loop
                       \* index of its bind_rtp_port, the port it bound
    sess,              \* the spawned rtp_session_handler tasks
    wav,               \* the file at settings.announcement.welcome_file_path
    overflow_checks,   \* whether the build checks integer overflow
    ann,               \* the spawned send_welcome_announcement tasks
    sent,              \* the datagrams handed to send_to, in order
    codec              \* a call of pcm16_to_g711_ulaw on its own

vars == <<min_port, max_port, bound, active_sessions, call, sess,
          wav, overflow_checks, ann, sent, codec>>
config == <<min_port, max_port, wav, overflow_checks>>
alloc == <<bound, active_sessions, call>>
media == <<ann, sent>>

Elems(s) == {s[i] : i \in DOMAIN s}

\* rtp_config.min_port..=rtp_config.max_port
PortRangeExclusive == min_port..(max_port - 1)
PortRange == min_port..max_port

\* UdpSocket::bind(&addr_str) is Ok exactly when no socket holds the port.
BindOkReuse(p) == TRUE
BindOk(p) == p \notin bound

\* The SSRCs of the streams the peers send.
PeerSsrcs == {<<4660, 22136>>}

\* A port of 0 stands for no port yet, a remote_addr of 0 for None.  Beside
\* the handler's own state a session records what recv_from has delivered to
\* it: the number of datagrams and of errors, the sources of the first and of
\* the latest datagram, and per SSRC the payload bytes of the datagrams that
\* carried an RTP header with payload type 0.
IdleCall == [pc |-> "idle", attempts |-> 0, port |-> 0]
NoSess == [pc |-> "none", port |-> 0, remote_addr |-> 0,
           received |-> 0, recv_errors |-> 0, first_src |-> 0, last_src |-> 0,
           pcmu_bytes |-> [ssrc \in PeerSsrcs |-> 0]]

(***************************************************************************)
(* Integer arithmetic of the widths the code uses.                         *)
(***************************************************************************)
\* The i16 with the low 16 bits of x.
ToI16(x) == LET m == x % (2^16) IN IF m >= 2^15 THEN m - 2^16 ELSE m

\* a & b and a | b on the two's complement bits of 16-bit values.
RECURSIVE BitAndNat(_, _, _)
BitAndNat(a, b, n) ==
    IF n = 0 THEN 0
    ELSE (IF a % 2 = 1 /\ b % 2 = 1 THEN 1 ELSE 0)
         + 2 * BitAndNat(a \div 2, b \div 2, n - 1)
RECURSIVE BitOrNat(_, _, _)
BitOrNat(a, b, n) ==
    IF n = 0 THEN 0
    ELSE (IF a % 2 = 1 \/ b % 2 = 1 THEN 1 ELSE 0)
         + 2 * BitOrNat(a \div 2, b \div 2, n - 1)
BitAnd16(a, b) == ToI16(BitAndNat(a % (2^16), b % (2^16), 16))
BitOr16(a, b) == ToI16(BitOrNat(a % (2^16), b % (2^16), 16))
\* !x on an i16.
BitNot16(x) == ToI16(-x - 1)
\* x >> k on an i16: the arithmetic shift.
Shr16(x, k) == x \div (2^k)
\* x << k on an i16.
Shl16(x, k) == ToI16(x * (2^k))

\* A u32 is kept as its two 16-bit halves <<high, low>>: the model's integers
\* are narrower than 2^32.
U32(n) == <<(n \div (2^16)) % (2^16), n % (2^16)>>

\* u16::wrapping_add and u32::wrapping_add.
WrappingAdd16(a, b) == (a + b) % (2^16)
WrappingAdd32(a, b) ==
    LET low == a[2] + b[2]
    IN  <<(a[1] + b[1] + (low \div (2^16))) % (2^16), low % (2^16)>>

\* u16::to_be_bytes and u32::to_be_bytes.
ToLeBytes16(x) == <<x % 256, (x \div 256) % 256>>
ToBeBytes16(x) == <<(x \div 256) % 256, x % 256>>
ToBeBytes32(x) == ToBeBytes16(x[1]) \o ToBeBytes16(x[2])

(***************************************************************************)
(* pcm16_to_g711_ulaw.                                                     *)
(***************************************************************************)
\* sample.abs() overflows on i16::MIN: a build that checks overflow panics,
\* one that does not returns i16::MIN.
AbsOverflows(sample) == sample = -(2^15)
AbsI16(sample) == IF sample < 0 THEN ToI16(-sample) ELSE sample

\* let exponent = match val { ... };
Exponent(val) ==
    IF val >= 0 /\ val <= 255 THEN 0
    ELSE IF val >= 256 /\ val <= 511 THEN 1
    ELSE IF val >= 512 /\ val <= 1023 THEN 2
    ELSE IF val >= 1024 /\ val <= 2047 THEN 3
    ELSE IF val >= 2048 /\ val <= 4095 THEN 4
    ELSE IF val >= 4096 /\ val <= 8191 THEN 5
    ELSE IF val >= 8192 /\ val <= 16383 THEN 6
    ELSE 7

\* The magnitude after abs and clip, and after the bias is added.
Clipped(sample) == LET val == AbsI16(sample) IN IF val > CLIP THEN CLIP ELSE val
Biased(sample) == ToI16(Clipped(sample) + BIAS)

\* The byte the encoder returns when sample.abs() has not panicked.
pcm16_to_g711_ulaw(sample) ==
    LET sign == BitAnd16(Shr16(sample, 8), 128)
        val == Biased(sample)
        exponent == Exponent(val)
        mantissa == BitAnd16(Shr16(val, exponent + 3), 15)
        ulaw == BitNot16(BitOr16(BitOr16(sign, Shl16(exponent, 4)), mantissa))
    IN  ulaw % 256

\* The mu-law decoder of the specification: invert the bits, take the sign,
\* the exponent and the mantissa, rebuild the magnitude, negate it if the
\* sign is set.
g711_ulaw_to_pcm16(byte) ==
    LET inverted == 255 - byte
        sign == inverted \div 128
        exponent == (inverted \div 16) % 8
        mantissa == inverted % 16
        magnitude == ((mantissa * 8 + BIAS) * (2^exponent)) - BIAS
    IN  IF sign = 1 THEN -magnitude ELSE magnitude

(***************************************************************************)
(* The announcement source and the RTP packet.                             *)
(***************************************************************************)
\* Sample i of a source: a ramp through the 16-bit range, or a clipped square
\* wave between the two full-scale values.
SourceKinds == {"ramp", "clipped"}
Sample(kind, i) ==
    IF kind = "ramp" THEN ToI16(i * 1021)
    ELSE IF i % 2 = 1 THEN 2^15 - 1 ELSE -(2^15)
Source(kind, n) == [i \in 1..n |-> Sample(kind, i)]

SourceLens ==
    {0, 1, samples_per_packet - 1, samples_per_packet, samples_per_packet + 1,
     2 * samples_per_packet, MaxSamples}

WavFile(exists, channels, sample_rate, bits_per_sample, pcm) ==
    [exists |-> exists, channels |-> channels, sample_rate |-> sample_rate,
     bits_per_sample |-> bits_per_sample, pcm |-> pcm]

\* The files the configuration may name: none, one of another format, and
\* mono 16-bit 8000 Hz sources of the lengths and kinds above.
WavFiles ==
    {WavFile(FALSE, 1, 8000, 16, <<>>)}
    \cup {WavFile(TRUE, f[1], f[2], f[3], Source("ramp", samples_per_packet)) :
            f \in {<<2, 8000, 16>>, <<1, 16000, 16>>, <<1, 8000, 8>>}}
    \cup {WavFile(TRUE, 1, 8000, 16, Source(kind, n)) :
            kind \in SourceKinds, n \in SourceLens}

\* Those of them that end an announcement before its first frame, and a source
\* of a single frame.
ShortWavFiles ==
    {w \in WavFiles : Len(w.pcm) = 0 \/ w.channels # 1 \/ w.sample_rate # 8000
                        \/ w.bits_per_sample # 16}
    \cup {WavFile(TRUE, 1, 8000, 16, Source("clipped", 2))}

\* reader.samples::<i16>().map(|s| pcm16_to_g711_ulaw(s.unwrap())).collect():
\* the encoded samples of each file, when no sample makes the encoder panic.
EncodedSamples ==
    [w \in WavFiles \cup ShortWavFiles |->
        [i \in DOMAIN w.pcm |-> pcm16_to_g711_ulaw(w.pcm[i])]]

\* if spec.channels != 1 || spec.sample_rate != 8000 || spec.bits_per_sample != 16
FormatUnsupportedRateOnly == wav.sample_rate # 8000
FormatUnsupported ==
    wav.channels # 1 \/ wav.sample_rate # 8000 \/ wav.bits_per_sample # 16

\* The values rand::thread_rng().gen() may give ssrc, sequence_number and
\* timestamp: the ends of each range, values next to them, and values whose
\* low half carries into the high one.
Seed(ssrc, seq, ts) == [ssrc |-> ssrc, sequence_number |-> seq, timestamp |-> ts]
Seeds ==
    {Seed(<<0, 0>>, 0, <<0, 0>>),
     Seed(<<4660, 22136>>, 4660, <<4660, 2^16 - 1>>),
     Seed(<<2^16 - 1, 2^16 - 1>>, 2^16 - 1, <<2^16 - 1, 2^16 - 1>>),
     Seed(<<0, 2^16 - 1>>, 2^16 - 2, <<2^16 - 1, 2^16 - samples_per_packet>>),
     Seed(<<2^16 - 1, 0>>, 2^16 - 3, <<2^16 - 1, 2^16 - 2 * samples_per_packet>>),
     Seed(<<2^15, 2^15>>, 2^15 - 1, <<2^15 - 1, 2^16 - samples_per_packet>>)}

\* The datagrams a peer sends: their lengths, and the payload type and the
\* SSRC of the RTP header of those that are long enough to have one.  The
\* datagrams of payload type 0 carry no payload or one 20 ms frame; those of
\* payload type 8 carry one frame or more than the receive buffer holds.
DatagramLens == {0, 11, 12, 12 + samples_per_packet, 4096}
Datagram(len, pt, ssrc) == [len |-> len, pt |-> pt, ssrc |-> ssrc]
Datagrams ==
    {Datagram(len, IF len > 12 + samples_per_packet THEN 8 ELSE 0, ssrc) :
        len \in DatagramLens, ssrc \in PeerSsrcs}
    \cup {Datagram(12 + samples_per_packet, 8, ssrc) : ssrc \in PeerSsrcs}

\* let mut buf = [0u8; 2048]: recv_from delivers at most that many bytes.
BufLen == 2048
Delivered(d) == IF d.len > BufLen THEN BufLen ELSE d.len

\* The payload bytes of a delivered datagram that has the 12 bytes of an RTP
\* header and payload type 0; none for any other datagram.
PcmuPayloadLen(d) ==
    IF Delivered(d) >= 12 /\ d.pt = 0 THEN Delivered(d) - 12 ELSE 0

\* The packet lines 142-148 build.
RtpPacketLittleEndian(pt, seq, ts, ssrc, chunk) ==
    <<128, pt>> \o ToLeBytes16(seq) \o ToBeBytes32(ts) \o ToBeBytes32(ssrc) \o chunk
RtpPacket(pt, seq, ts, ssrc, chunk) ==
    <<128, pt>> \o ToBeBytes16(seq) \o ToBeBytes32(ts) \o ToBeBytes32(ssrc) \o chunk

\* sequence_number.wrapping_add(1)
NextSequenceNumberSkip(seq) == WrappingAdd16(seq, 2)
NextSequenceNumber(seq) == WrappingAdd16(seq, 1)
\* timestamp.wrapping_add(samples_per_packet as u32)
NextTimestampByPacketLen(ts) == WrappingAdd32(ts, U32(12 + samples_per_packet))
NextTimestamp(ts) == WrappingAdd32(ts, U32(samples_per_packet))

\* The chunk of samples.chunks(samples_per_packet) that starts after pos.
Chunk(samples, pos) ==
    SubSeq(samples, pos + 1,
           IF pos + samples_per_packet < Len(samples)
           THEN pos + samples_per_packet ELSE Len(samples))

(***************************************************************************)
(* Initial states.                                                         *)
(***************************************************************************)
DefaultWav == WavFile(TRUE, 1, 8000, 16, Source("ramp", MaxSamples))
IdleCodec == [pc |-> "idle", sample |-> 0, ulaw |-> 0]

\* main: the configuration is loaded, the registry is empty, no request has
\* arrived.
Init ==
    /\ min_port \in Ports
    /\ max_port \in Ports
    /\ wav = DefaultWav
    /\ overflow_checks = FALSE
    /\ bound = {}
    /\ active_sessions = <<>>
    /\ call = [c \in Calls |-> IdleCall]
    /\ sess = [c \in Calls |-> NoSess]
    /\ ann = <<>>
    /\ sent = <<>>
    /\ codec = IdleCodec

\* A request arrives: allocate_port enters bind_rtp_port.
Request(c) ==
    /\ call[c].pc = "idle"
    /\ call' = [call EXCEPT ![c].pc = "binding"]
    /\ UNCHANGED <<config, bound, active_sessions, sess, media, codec>>

\* gen_range panics on an empty range (min_port > max_port).
RangePanic(c) ==
    /\ call[c].pc = "binding"
    /\ PortRange = {}
    /\ call' = [call EXCEPT ![c].pc = "panicked"]
    /\ UNCHANGED <<config, bound, active_sessions, sess, media, codec>>

\* One iteration of the loop of bind_rtp_port whose bind succeeds: it returns
\* the port and the socket (its loop index is dropped with it), and
\* allocate_port spawns rtp_session_handler with both.
BindSuccess(c) ==
    /\ call[c].pc = "binding"
    /\ call[c].attempts < MaxAttempts
    /\ \E p \in PortRange :
        /\ BindOk(p)
        /\ bound' = bound \cup {p}
        /\ call' = [call EXCEPT ![c].pc = "spawned", ![c].port = p,
                                ![c].attempts = 0]
        /\ sess' = [sess EXCEPT ![c].pc = "spawned", ![c].port = p]
    /\ UNCHANGED <<config, active_sessions, media, codec>>

\* One iteration whose bind fails; after the last one the loop is exhausted,
\* bind_rtp_port returns Err(AddrInUse) and allocate_port maps it to
\* Status::internal.
BindFailure(c) ==
    /\ call[c].pc = "binding"
    /\ call[c].attempts < MaxAttempts
    /\ \E p \in PortRange :
        /\ ~BindOk(p)
        /\ call' = [call EXCEPT
                      ![c].attempts = @ + 1,
                      ![c].pc = IF call[c].attempts + 1 = MaxAttempts
                                THEN "err" ELSE "binding"]
    /\ UNCHANGED <<config, bound, active_sessions, sess, media, codec>>

\* allocate_port returns Ok(AllocatePortResponse { port }).
Reply(c) ==
    /\ call[c].pc = "spawned"
    /\ call' = [call EXCEPT ![c].pc = "ok"]
    /\ UNCHANGED <<config, bound, active_sessions, sess, media, codec>>

\* active_sessions.lock().unwrap().push(port)
RegistryPushReplace(list, port) == <<port>>
RegistryPush(list, port) == Append(list, port)

\* The spawned rtp_session_handler starts: it pushes its port on the registry
\* and enters its receive loop.
SessionRegister(c) ==
    /\ sess[c].pc = "spawned"
    /\ active_sessions' = RegistryPush(active_sessions, sess[c].port)
    /\ sess' = [sess EXCEPT ![c].pc = "listening"]
    /\ UNCHANGED <<config, bound, call, media, codec>>

(***************************************************************************)
(* rtp_session_handler: the receive loop.                                  *)
(***************************************************************************)
\* if remote_addr.is_none()
RemoteAddrIsNoneAlways(c) == TRUE
RemoteAddrIsNone(c) == sess[c].remote_addr = 0

\* The task tokio::spawn(send_welcome_announcement(sock_clone, addr, ..))
\* creates, at its first line.
NewAnnouncement(c, addr) ==
    [sid |-> c, target_addr |-> addr, pc |-> "open", outcome |-> "running",
     ssrc |-> U32(0), sequence_number |-> 0, timestamp |-> U32(0),
     samples |-> <<>>, pos |-> 0, ticks |-> 0]

\* The address send_welcome_announcement is spawned with: addr, the source
\* of the datagram just received.
AnnouncementTargetStale(c, addr) == sess[c].remote_addr
AnnouncementTarget(c, addr) == addr

\* The decoded samples the handler holds for an SSRC.  It holds none: its
\* state is remote_addr and buf, recv_from overwrites buf with every datagram
\* and nothing reads buf or the length.
Accumulator(c, ssrc) == <<>>

\* recv_from returns Ok((_len, addr)): the first datagram sets remote_addr and
\* spawns the announcement; the length and the bytes are not looked at.
Receive(c) ==
    /\ sess[c].pc = "listening"
    /\ sess[c].received + sess[c].recv_errors < MaxDatagrams
    /\ \E addr \in Peers, d \in Datagrams :
        LET heard == [sess[c] EXCEPT
                        !.received = @ + 1,
                        !.first_src = IF @ = 0 THEN addr ELSE @,
                        !.last_src = addr,
                        !.pcmu_bytes[d.ssrc] = @ + PcmuPayloadLen(d)]
        IN  IF RemoteAddrIsNone(c)
            THEN /\ sess' = [sess EXCEPT
                               ![c] = [heard EXCEPT !.remote_addr = addr]]
                 /\ ann' = Append(ann,
                        NewAnnouncement(c, AnnouncementTarget(c, addr)))
            ELSE /\ sess' = [sess EXCEPT ![c] = heard]
                 /\ ann' = ann
    /\ UNCHANGED <<config, alloc, sent, codec>>

\* recv_from returns Err: the loop goes on.
ReceiveError(c) ==
    /\ sess[c].pc = "listening"
    /\ sess[c].received + sess[c].recv_errors < MaxDatagrams
    /\ sess' = [sess EXCEPT ![c].recv_errors = @ + 1]
    /\ UNCHANGED <<config, alloc, media, codec>>

(***************************************************************************)
(* send_welcome_announcement.                                              *)
(***************************************************************************)
Tasks == DOMAIN ann

\* The head of an iteration of `for chunk in samples.chunks(..)`: the task
\* waits in interval.tick().await before it builds the packet.
LoopHeadNoTick == "send"
LoopHead == "tick"

\* if let Err(e) = sock.send_to(..).await { ...; break; }
SendErrorContinues(t) == [t EXCEPT !.pc = LoopHead]
SendErrorBreaks(t) == [t EXCEPT !.pc = "ended", !.outcome = "send_error"]

End(k, how) == ann' = [ann EXCEPT ![k].pc = "ended", ![k].outcome = how]

\* hound::WavReader::open fails.
AnnounceOpenError(k) ==
    /\ k \in Tasks
    /\ ann[k].pc = "open"
    /\ ~wav.exists
    /\ End(k, "open_error")
    /\ UNCHANGED <<config, alloc, sess, sent, codec>>

\* The format is not mono, 8000 Hz, 16 bit.
AnnounceBadFormat(k) ==
    /\ k \in Tasks
    /\ ann[k].pc = "open"
    /\ wav.exists
    /\ FormatUnsupported
    /\ End(k, "bad_format")
    /\ UNCHANGED <<config, alloc, sess, sent, codec>>

\* Whether encoding the source panics: some sample is i16::MIN and the build
\* checks overflow.
EncodingPanics ==
    overflow_checks /\ \E i \in DOMAIN wav.pcm : AbsOverflows(wav.pcm[i])

\* Lines 126-137: the counters are drawn and the whole source is encoded;
\* the loop over the chunks is entered, or skipped for an empty source.
AnnouncePrepare(k) ==
    /\ k \in Tasks
    /\ ann[k].pc = "open"
    /\ wav.exists
    /\ ~FormatUnsupported
    /\ ~EncodingPanics
    /\ \E seed \in Seeds :
        ann' = [ann EXCEPT
                  ![k].ssrc = seed.ssrc,
                  ![k].sequence_number = seed.sequence_number,
                  ![k].timestamp = seed.timestamp,
                  ![k].samples = EncodedSamples[wav],
                  ![k].pc = IF Len(wav.pcm) = 0 THEN "ended" ELSE LoopHead,
                  ![k].outcome = IF Len(wav.pcm) = 0 THEN "completed" ELSE @]
    /\ UNCHANGED <<config, alloc, sess, sent, codec>>

\* pcm16_to_g711_ulaw panics while the source is encoded: the task dies.
AnnouncePanic(k) ==
    /\ k \in Tasks
    /\ ann[k].pc = "open"
    /\ wav.exists
    /\ ~FormatUnsupported
    /\ EncodingPanics
    /\ End(k, "panic")
    /\ UNCHANGED <<config, alloc, sess, sent, codec>>

\* interval.tick().await returns.
AnnounceTick(k) ==
    /\ k \in Tasks
    /\ ann[k].pc = "tick"
    /\ ann' = [ann EXCEPT ![k].pc = "send", ![k].ticks = @ + 1]
    /\ UNCHANGED <<config, alloc, sess, sent, codec>>

\* The packet of the next chunk is built and send_to returns Ok: the counters
\* advance and the loop goes to its next chunk, or ends after the last one.
AnnounceSend(k) ==
    /\ k \in Tasks
    /\ ann[k].pc = "send"
    /\ LET t == ann[k]
           chunk == Chunk(t.samples, t.pos)
           pos == t.pos + Len(chunk)
       IN  /\ sent' = Append(sent,
                  [task |-> k, sock |-> sess[t.sid].port, to |-> t.target_addr,
                   seq |-> t.sequence_number, ts |-> t.timestamp,
                   ssrc |-> t.ssrc,
                   bytes |-> RtpPacket(payload_type, t.sequence_number,
                                       t.timestamp, t.ssrc, chunk)])
           /\ ann' = [ann EXCEPT
                  ![k].sequence_number = NextSequenceNumber(t.sequence_number),
                  ![k].timestamp = NextTimestamp(t.timestamp),
                  ![k].pos = pos,
                  ![k].pc = IF pos < Len(t.samples) THEN LoopHead ELSE "ended",
                  ![k].outcome =
                      IF pos < Len(t.samples) THEN @ ELSE "completed"]
    /\ UNCHANGED <<config, alloc, sess, codec>>

\* send_to returns Err: break.
AnnounceSendError(k) ==
    /\ k \in Tasks
    /\ ann[k].pc = "send"
    /\ ann' = [ann EXCEPT ![k] = SendErrorBreaks(ann[k])]
    /\ UNCHANGED <<config, alloc, sess, sent, codec>>

(***************************************************************************)
(* A call of pcm16_to_g711_ulaw.                                           *)
(***************************************************************************)
Encode ==
    /\ codec.pc = "idle"
    /\ ~(overflow_checks /\ AbsOverflows(codec.sample))
    /\ codec' = [codec EXCEPT !.pc = "done",
                              !.ulaw = pcm16_to_g711_ulaw(codec.sample)]
    /\ UNCHANGED <<config, alloc, sess, media>>

EncodePanic ==
    /\ codec.pc = "idle"
    /\ overflow_checks /\ AbsOverflows(codec.sample)
    /\ codec' = [codec EXCEPT !.pc = "panicked"]
    /\ UNCHANGED <<config, alloc, sess, media>>

(***************************************************************************)
(* The specifications.                                                     *)
(***************************************************************************)
\* The control plane: concurrent allocate_port requests and the session tasks
\* they spawn, up to their registration.
Next ==
    \E c \in Calls :
        \/ Request(c)
        \/ RangePanic(c)
        \/ BindSuccess(c)
        \/ BindFailure(c)
        \/ Reply(c)
        \/ SessionRegister(c)

Spec == Init /\ [][Next]_vars

\* One session, from the moment its handler has registered its port: the
\* datagrams it receives and the announcement it plays.
InitSession ==
    /\ min_port = 30000
    /\ max_port = 30000
    /\ wav \in WavFiles
    /\ overflow_checks \in BOOLEAN
    /\ bound = {30000}
    /\ active_sessions = <<30000>>
    /\ call = [c \in Calls |->
                 IF c = 1 THEN [IdleCall EXCEPT !.pc = "ok", !.port = 30000]
                 ELSE IdleCall]
    /\ sess = [c \in Calls |->
                 IF c = 1 THEN [NoSess EXCEPT !.pc = "listening", !.port = 30000]
                 ELSE NoSess]
    /\ ann = <<>>
    /\ sent = <<>>
    /\ codec = IdleCodec

NextSession ==
    \/ \E c \in Calls :
        \/ Receive(c)
        \/ ReceiveError(c)
    \/ \E k \in 1..MaxDatagrams :
        \/ AnnounceOpenError(k)
        \/ AnnounceBadFormat(k)
        \/ AnnouncePrepare(k)
        \/ AnnouncePanic(k)
        \/ AnnounceTick(k)
        \/ AnnounceSend(k)
        \/ AnnounceSendError(k)

SpecSession == InitSession /\ [][NextSession]_vars

\* A step of announcement task k.
AnnounceStep(k) ==
    \/ AnnounceOpenError(k)
    \/ AnnounceBadFormat(k)
    \/ AnnouncePrepare(k)
    \/ AnnouncePanic(k)
    \/ AnnounceTick(k)
    \/ AnnounceSend(k)
    \/ AnnounceSendError(k)

\* The same session under a runtime that keeps running every spawned task:
\* the file is read, the interval fires its ticks and send_to returns, with
\* Ok or with Err.  Nothing makes a peer send or a datagram arrive.
FairSpecSession ==
    /\ InitSession
    /\ [][NextSession]_vars
    /\ \A k \in 1..MaxDatagrams : WF_vars(AnnounceStep(k))

\* Two sessions side by side, with sources that end an announcement early or
\* after a single frame.  The second session has so far seen only receive
\* errors.
InitSessions ==
    /\ min_port = 30000
    /\ max_port = 30000 + 1
    /\ wav \in ShortWavFiles
    /\ overflow_checks \in BOOLEAN
    /\ bound = {30000, 30000 + 1}
    /\ active_sessions = <<30000, 30000 + 1>>
    /\ call = [c \in Calls |->
                 IF c \in {1, 2}
                 THEN [IdleCall EXCEPT !.pc = "ok", !.port = 30000 + c - 1]
                 ELSE IdleCall]
    /\ sess = [c \in Calls |->
                 IF c = 1
                 THEN [NoSess EXCEPT !.pc = "listening", !.port = 30000]
                 ELSE IF c = 2
                 THEN [NoSess EXCEPT !.pc = "listening", !.port = 30000 + 1,
                                     !.recv_errors = MaxDatagrams - 1]
                 ELSE NoSess]
    /\ ann = <<>>
    /\ sent = <<>>
    /\ codec = IdleCodec

SpecSessions == InitSessions /\ [][NextSession]_vars

\* The encoder on its own, on every 16-bit sample.
InitCodec ==
    /\ min_port = 30000
    /\ max_port = 30000
    /\ wav = DefaultWav
    /\ overflow_checks \in BOOLEAN
    /\ bound = {}
    /\ active_sessions = <<>>
    /\ call = [c \in Calls |-> IdleCall]
    /\ sess = [c \in Calls |-> NoSess]
    /\ ann = <<>>
    /\ sent = <<>>
    /\ codec \in {[IdleCodec EXCEPT !.sample = s] : s \in (-(2^15))..(2^15 - 1)}

NextCodec == Encode \/ EncodePanic

SpecCodec == InitCodec /\ [][NextCodec]_vars

(***************************************************************************)
(* Claims about the port allocator and the registry.                       *)
(***************************************************************************)
Succeeded(c) == call[c].pc \in {"spawned", "ok"}

\* The step in which the bind of call c succeeds.
BindSucceeds(c) == call[c].pc = "binding" /\ call'[c].pc = "spawned"

\* C1: a successful allocation never returns a port that is in the Session
\* Registry at the moment its bind succeeds, and no two successful
\* allocations return the same port.
C1_PortUniqueness ==
    /\ [][\A c \in Calls :
            BindSucceeds(c) => call'[c].port \notin Elems(active_sessions)]_vars
    /\ [](\A c, d \in Calls :
            (c # d /\ Succeeded(c) /\ Succeeded(d))
                => call[c].port # call[d].port)

\* A second allocation has just bound its port while the first one's port is
\* registered.
C1_Witness ==
    \E c, d \in Calls :
        /\ c # d
        /\ call[c].pc = "ok" /\ call[c].port \in Elems(active_sessions)
        /\ call[d].pc = "spawned" /\ sess[d].pc = "spawned"
        /\ call[d].port \in Ports

AllBound == PortRange # {} /\ PortRange \subseteq bound

\* C2: bind_rtp_port makes at most 100 bind attempts: its loop index grows by
\* one with every attempt and never passes 100; it fails only after exactly
\* 100 failed attempts; and once every port of the (non-empty) range is bound
\* no attempt succeeds, so the call ends with the exhaustion error.
C2_BoundedRetries ==
    /\ [](\A c \in Calls :
            /\ call[c].attempts \in 0..100
            /\ call[c].pc = "binding" => call[c].attempts < 100
            /\ call[c].pc = "err" <=> call[c].attempts = 100)
    /\ [][\A c \in Calls :
            (call[c].pc = "binding" /\ call'[c] # call[c]) =>
                \/ call'[c].pc = "binding"
                      /\ call'[c].attempts = call[c].attempts + 1
                \/ call'[c].pc = "err" /\ call[c].attempts = 99
                \/ call'[c].pc = "spawned" /\ ~AllBound
                \/ call'[c].pc = "panicked" /\ call[c].attempts = 0]_vars

\* A call has failed with the exhaustion error on a fully bound range.
C2_Witness ==
    \E c \in Calls :
        call[c].pc = "err" /\ call[c].attempts = 100 /\ AllBound

SinglePort == min_port = max_port

\* C3: with min_port = max_port = p, no attempt fails while p is free and no
\* call panics, a successful allocation returns p, and once p is bound no
\* further allocation succeeds: it fails with the exhaustion error, p being
\* held by the first one.
C3_SinglePortRange ==
    /\ [](SinglePort =>
            /\ \A c \in Calls :
                  /\ call[c].pc # "panicked"
                  /\ Succeeded(c) => call[c].port = min_port
                  /\ call[c].pc = "err" =>
                        \E d \in Calls \ {c} :
                            Succeeded(d) /\ call[d].port = min_port
            /\ bound = {} =>
                  \A c \in Calls :
                      call[c].pc \in {"idle", "binding"} /\ call[c].attempts = 0)
    /\ [][(SinglePort /\ bound # {}) =>
            \A c \in Calls : ~BindSucceeds(c)]_vars

\* The first allocation returned p and the second one failed.
C3_Witness ==
    /\ SinglePort
    /\ \E c, d \in Calls :
        /\ call[c].pc = "ok" /\ call[c].port = min_port
        /\ call[d].pc = "err" /\ call[d].attempts = 100

\* C4: whenever allocate_port has returned a port to its caller, the port is
\* in the Session Registry.
C4_RegisteredBeforeReply ==
    \A c \in Calls :
        call[c].pc = "ok" => call[c].port \in Elems(active_sessions)

(***************************************************************************)
(* Claims about a session and its announcement.                            *)
(***************************************************************************)
\* The announcement tasks spawned for session c.
TasksOf(c) == {k \in Tasks : ann[k].sid = c}

\* C5: no announcement task exists for a session before its first datagram
\* is received, exactly one exists once it has been received, and none is
\* added by any later datagram, whatever its source and length.
C5_EgressActivatedOnce ==
    \A c \in Calls :
        Cardinality(TasksOf(c)) = IF sess[c].received = 0 THEN 0 ELSE 1

\* A session has received a second datagram after its announcement ended.
C5_Witness ==
    \E c \in Calls :
        /\ sess[c].received >= 2
        /\ \E k \in TasksOf(c) : ann[k].pc = "ended"

\* The packets task k has sent, in the order of their sending.
PacketsOf(k) == SelectSeq(sent, LAMBDA p : p.task = k)

\* The fields of an RTP packet, read off its bytes.
RtpSequenceNumber(b) == b[3] * 256 + b[4]
RtpTimestamp(b) == <<b[5] * 256 + b[6], b[7] * 256 + b[8]>>
RtpPayload(b) == SubSeq(b, 13, Len(b))

\* a - b modulo 2^32, on the halves.
Diff32(a, b) ==
    <<(a[1] - b[1] - (IF a[2] < b[2] THEN 1 ELSE 0)) % (2^16),
      (a[2] - b[2]) % (2^16)>>

\* C6: of any two consecutive packets of one stream, the second's sequence
\* number is the first's plus 1 modulo 2^16 and the second's timestamp is the
\* first's plus the number of samples the first carries, modulo 2^32.
C6_SequenceTimestampMonotonic ==
    \A k \in Tasks :
        LET ps == PacketsOf(k)
        IN  \A j \in 1..(Len(ps) - 1) :
                /\ RtpSequenceNumber(ps[j + 1].bytes)
                      = (RtpSequenceNumber(ps[j].bytes) + 1) % (2^16)
                /\ Diff32(RtpTimestamp(ps[j + 1].bytes), RtpTimestamp(ps[j].bytes))
                      = <<0, Len(RtpPayload(ps[j].bytes))>>

\* A stream of three packets whose timestamp wraps past 2^32.
C6_Witness ==
    \E k \in Tasks :
        LET ps == PacketsOf(k)
        IN  /\ Len(ps) = 3
            /\ RtpTimestamp(ps[1].bytes)[1] = 2^16 - 1
            /\ RtpTimestamp(ps[3].bytes)[1] = 0

CeilDiv(n, d) == (n + d - 1) \div d

\* The bytes the encoder gives the samples first..last of the source.
EncodedSource(first, last) ==
    [i \in 1..(last - first + 1) |-> pcm16_to_g711_ulaw(wav.pcm[first + i - 1])]

\* C7: a playback of a source of N samples in the required format that met no
\* send failure has sent exactly ceil(N/160) packets, in source order, each
\* of 160 payload bytes but the last, which carries the remaining samples.
C7_Framing ==
    \A k \in Tasks :
        (/\ ann[k].pc = "ended"
         /\ wav.exists /\ ~FormatUnsupported
         /\ ann[k].outcome # "send_error") =>
            LET ps == PacketsOf(k)
                N == Len(wav.pcm)
            IN  /\ Len(ps) = CeilDiv(N, 160)
                /\ \A j \in 1..Len(ps) :
                      RtpPayload(ps[j].bytes) =
                          EncodedSource(160 * (j - 1) + 1,
                                        IF j < Len(ps) THEN 160 * j ELSE N)

\* C8 as stated: of any two consecutive packets of one stream, the later one's
\* sequence number is strictly greater than the earlier one's.
C8_StrictlyIncreasing ==
    \A k \in Tasks :
        LET ps == PacketsOf(k)
        IN  \A j \in 1..(Len(ps) - 1) :
                RtpSequenceNumber(ps[j + 1].bytes) > RtpSequenceNumber(ps[j].bytes)

\* C8 as amended: of any two consecutive packets of one stream, the later
\* one's sequence number is strictly greater than the earlier one's, by
\* exactly one, unless the earlier one's is 65535: the later one's is then 0.
C8_IncreasingUpToWrap ==
    \A k \in Tasks :
        LET ps == PacketsOf(k)
        IN  \A j \in 1..(Len(ps) - 1) :
                LET earlier == RtpSequenceNumber(ps[j].bytes)
                    later == RtpSequenceNumber(ps[j + 1].bytes)
                IN  IF earlier = 65535 THEN later = 0
                    ELSE later > earlier /\ later - earlier = 1

\* A stream of three packets numbered 65534, 65535, 0.
C8_Witness ==
    \E k \in Tasks :
        LET ps == PacketsOf(k)
        IN  /\ Len(ps) = 3
            /\ RtpSequenceNumber(ps[1].bytes) = 65534
            /\ RtpSequenceNumber(ps[2].bytes) = 65535
            /\ RtpSequenceNumber(ps[3].bytes) = 0

\* The index of sent[i] among the packets of its task.
IndexInStream(i) ==
    Cardinality({h \in 1..i : sent[h].task = sent[i].task})

\* C9: every packet sent is 12 bytes longer than its payload, starts with
\* 0x80 and the payload type 0, holds the sequence number it was built with
\* big-endian in bytes 2-3, the timestamp in bytes 4-7, the SSRC of its stream
\* in bytes 8-11, and from byte 12 on the encoded samples of its frame.
C9_WireLayout ==
    \A i \in DOMAIN sent :
        LET p == sent[i]
            b == p.bytes
            t == ann[p.task]
            j == IndexInStream(i)
            last == IF 160 * j < Len(t.samples) THEN 160 * j ELSE Len(t.samples)
            payload == SubSeq(t.samples, 160 * (j - 1) + 1, last)
        IN  /\ Len(b) = 12 + Len(payload)
            /\ b[1] = 128
            /\ b[2] = 0
            /\ b[3] = p.seq \div 256 /\ b[4] = p.seq % 256
            /\ b[5] = p.ts[1] \div 256 /\ b[6] = p.ts[1] % 256
            /\ b[7] = p.ts[2] \div 256 /\ b[8] = p.ts[2] % 256
            /\ p.ssrc = t.ssrc
            /\ b[9] = t.ssrc[1] \div 256 /\ b[10] = t.ssrc[1] % 256
            /\ b[11] = t.ssrc[2] \div 256 /\ b[12] = t.ssrc[2] % 256
            /\ \A n \in 1..Len(payload) : b[12 + n] = payload[n]

\* The last packet of a 321-sample source: one payload byte, and a sequence
\* number, a timestamp and an SSRC whose bytes all differ.
C9_Witness ==
    \E i \in DOMAIN sent :
        /\ Len(sent[i].bytes) = 13
        /\ IndexInStream(i) = 3
        /\ sent[i].seq = 4660 + 2
        /\ sent[i].ssrc = <<4660, 22136>>

(***************************************************************************)
(* Claims about the codec.                                                 *)
(***************************************************************************)
Abs(x) == IF x < 0 THEN -x ELSE x

\* The exponent band a mu-law byte encodes.
BandOf(byte) == ((255 - byte) \div 16) % 8

\* C10: decoding the byte pcm16_to_g711_ulaw(s) returns gives a value within
\* the quantization step 2^(exponent+3) of s, and not of the opposite sign,
\* for every 16-bit sample s.
C10_RoundTrip ==
    codec.pc = "done" =>
        LET s == codec.sample
            d == g711_ulaw_to_pcm16(codec.ulaw)
        IN  /\ Abs(d - s) <= 2^(BandOf(codec.ulaw) + 3)
            /\ s > 0 => d >= 0
            /\ s < 0 => d <= 0

\* The biased magnitude of a sample as arithmetic on the integers gives it.
IdealBiased(s) == (IF Abs(s) > CLIP THEN CLIP ELSE Abs(s)) + BIAS

\* The least e in 0..7 with b <= (0x100 << e) - 1, and 7 above 0x3FFF.
MinimalExponent(b) ==
    IF b > 16383 THEN 7
    ELSE CHOOSE e \in 0..7 :
            /\ b <= 256 * (2^e) - 1
            /\ \A f \in 0..7 : b <= 256 * (2^f) - 1 => e <= f

\* C11: for every input sample pcm16_to_g711_ulaw returns a byte whose
\* exponent field is the minimal e in 0..7 such that the biased magnitude
\* min(|s|, 32635) + 0x84 is at most (0x100 << e) - 1 (7 above 0x3FFF), and
\* whose mantissa field is (biased >> (e + 3)) & 0x0F.
C11_ExponentSelection ==
    /\ codec.pc # "panicked"
    /\ codec.pc = "done" =>
        LET b == IdealBiased(codec.sample)
            e == MinimalExponent(b)
        IN  /\ BandOf(codec.ulaw) = e
            /\ (255 - codec.ulaw) % 16 = (b \div (2^(e + 3))) % 16

\* C20: for every 16-bit sample, -32768 included, no step of the encoder
\* overflows, the magnitude after the absolute-value and clip steps lies in
\* 0..32635 and the biased value lies in 0x84..0x7FFF.
C20_MagnitudeRange ==
    /\ codec.pc # "panicked"
    /\ codec.pc = "done" =>
        /\ Clipped(codec.sample) \in 0..CLIP
        /\ Biased(codec.sample) \in BIAS..(2^15 - 1)

(***************************************************************************)
(* Claims about the receive loop and the announcement task.                *)
(***************************************************************************)
\* C12: for every datagram a session receives that is at least 12 bytes long
\* and has payload type 0, the payload bytes are decoded and appended to the
\* session's accumulator entry of the datagram's SSRC: after k such datagrams
\* of n payload bytes each the entry holds exactly k * n samples.
C12_IngressAccumulation ==
    \A c \in Calls, ssrc \in PeerSsrcs :
        Len(Accumulator(c, ssrc)) = sess[c].pcmu_bytes[ssrc]

\* The announcement source cannot be opened, or is not mono, 16-bit, 8000 Hz.
SourceUnusable ==
    \/ ~wav.exists
    \/ wav.channels # 1
    \/ wav.bits_per_sample # 16
    \/ wav.sample_rate # 8000

\* C13: if the announcement source is not mono, 16-bit, 8000 Hz, or cannot be
\* opened, no packet is ever sent and every announcement task ends without
\* having left its first line; the receive loop of its session stays in
\* recv_from and takes further datagrams; and a step of an announcement task
\* changes no session and no other task.
C13_FormatMismatchAbortsPlaybackOnly ==
    /\ [](SourceUnusable =>
            /\ sent = <<>>
            /\ \A k \in Tasks :
                /\ \/ ann[k].pc = "open"
                   \/ /\ ann[k].pc = "ended"
                      /\ ann[k].outcome \in {"open_error", "bad_format"}
                /\ sess[ann[k].sid].pc = "listening"
                /\ (sess[ann[k].sid].received + sess[ann[k].sid].recv_errors
                        < MaxDatagrams) => ENABLED Receive(ann[k].sid))
    /\ [][\A k \in Tasks :
            ann'[k] # ann[k] =>
                /\ sess' = sess
                /\ \A j \in Tasks \ {k} : ann'[j] = ann[j]]_vars

\* The task of the first session has ended on a source of another format,
\* the session has taken every datagram nevertheless, and the second session
\* has learned its peer and started its own task.
C13_Witness ==
    /\ wav.exists /\ wav.channels = 2
    /\ sess[1].received = MaxDatagrams
    /\ sess[2].received = 1 /\ sess[2].remote_addr \in Peers
    /\ sent = <<>>
    /\ \E k, j \in Tasks :
        /\ ann[k].sid = 1 /\ ann[k].pc = "ended" /\ ann[k].outcome = "bad_format"
        /\ ann[j].sid = 2 /\ ann[j].pc = "open"

\* The step in which send_to of task k returns Err: the task leaves its send
\* and nothing has been put on the wire.
SendFails(k) == ann[k].pc = "send" /\ ann'[k] # ann[k] /\ sent' = sent

\* C14: if sending a frame fails, the announcement task ends there: the
\* frame is not retried and no later frame of the playback is ever sent, so
\* the packets of the task remain the frames before the failed one; the
\* session of the task stays in its receive loop, takes further datagrams,
\* and its learned remote address is unchanged.
C14_SendFailureAborts ==
    /\ [][\A k \in Tasks :
            SendFails(k) =>
                /\ ann'[k].pc = "ended"
                /\ ann'[k].outcome = "send_error"
                /\ ann'[k].pos = ann[k].pos
                /\ sess' = sess]_vars
    /\ [][\A k \in Tasks :
            ann[k].pc = "ended" =>
                /\ ann'[k] = ann[k]
                /\ SelectSeq(sent', LAMBDA p : p.task = k) = PacketsOf(k)]_vars
    /\ [](\A k \in Tasks :
            ann[k].outcome = "send_error" =>
                LET c == ann[k].sid
                IN  /\ ann[k].pc = "ended"
                    /\ ann[k].pos < Len(ann[k].samples)
                    /\ Len(PacketsOf(k)) * samples_per_packet = ann[k].pos
                    /\ sess[c].pc = "listening"
                    /\ sess[c].remote_addr = ann[k].target_addr
                    /\ (sess[c].received + sess[c].recv_errors < MaxDatagrams)
                            => ENABLED Receive(c))

\* The second of three frames has failed: one packet is on the wire, the task
\* has ended, and the session has taken every datagram.
C14_Witness ==
    \E k \in Tasks :
        /\ ann[k].outcome = "send_error"
        /\ ann[k].pos = samples_per_packet
        /\ Len(ann[k].samples) > 2 * samples_per_packet
        /\ Len(PacketsOf(k)) = 1
        /\ sess[ann[k].sid].received = MaxDatagrams

\* The number of times task k has built a packet and called send_to.
SendAttempts(k) ==
    Len(PacketsOf(k)) + (IF ann[k].outcome = "send_error" THEN 1 ELSE 0)

\* The frames of 160 samples or fewer that task k has encoded.
FramesEncoded(k) == CeilDiv(Len(ann[k].samples), samples_per_packet)

PacketsOn(c) == SelectSeq(sent, LAMBDA p : p.sock = sess[c].port)

\* C16: under fair scheduling every announcement task eventually ends,
\* whatever the finite source; a task that completes has sent every frame up
\* to the last; and once it has ended it takes no further step, no further
\* packet is sent on its session and no new announcement is started for it,
\* whatever datagrams arrive.
C16_Completion ==
    /\ \A k \in 1..MaxDatagrams :
        [](k \in Tasks => <>(k \in Tasks /\ ann[k].pc = "ended"))
    /\ [](\A k \in Tasks :
            ann[k].outcome = "completed" =>
                /\ ann[k].pc = "ended"
                /\ ann[k].pos = Len(ann[k].samples)
                /\ Len(PacketsOf(k)) = FramesEncoded(k))
    /\ [][\A k \in Tasks :
            ann[k].pc = "ended" =>
                /\ ann'[k] = ann[k]
                /\ SelectSeq(sent', LAMBDA p : p.sock = sess[ann[k].sid].port)
                       = PacketsOn(ann[k].sid)
                /\ \A j \in DOMAIN ann' : ann'[j].sid = ann[k].sid => j \in Tasks]_vars

\* A playback of two frames has completed and a further datagram has
\* arrived since: the packets on the session are still the two.
C16_Witness ==
    \E k \in Tasks :
        /\ ann[k].outcome = "completed"
        /\ Len(ann[k].samples) = 2 * samples_per_packet
        /\ Len(PacketsOn(ann[k].sid)) = 2
        /\ sess[ann[k].sid].received = MaxDatagrams
        /\ Tasks = {k}

\* C17: after every successful send the stream's sequence counter has
\* advanced by 1 (mod 2^16) and its timestamp counter by the number of
\* samples of the frame just sent (mod 2^32), the final partial frame
\* included: the counters are those of the first packet plus the number of
\* packets sent and plus the number of samples sent.
C17_CounterAdvance ==
    \A k \in Tasks :
        LET ps == PacketsOf(k)
        IN  ps # <<>> =>
                /\ ann[k].sequence_number = (ps[1].seq + Len(ps)) % (2^16)
                /\ ann[k].timestamp = WrappingAdd32(ps[1].ts, U32(ann[k].pos))

\* C18: a session's remote address is unset until its first datagram, is then
\* the source address of that datagram, and never changes afterwards,
\* whatever the sources of the later datagrams; every announcement packet
\* sent from the session's socket goes to that address.
C18_RemoteAddrSetOnce ==
    /\ [](\A c \in Calls :
            /\ sess[c].received = 0 => sess[c].remote_addr = 0
            /\ sess[c].received > 0 =>
                /\ sess[c].remote_addr \in Peers
                /\ sess[c].remote_addr = sess[c].first_src)
    /\ [][\A c \in Calls :
            /\ (sess[c].received = 0 /\ sess'[c].received = 1)
                    => sess'[c].remote_addr = sess'[c].last_src
            /\ sess[c].remote_addr # 0
                    => sess'[c].remote_addr = sess[c].remote_addr]_vars
    /\ [](\A i \in DOMAIN sent : \A c \in Calls :
            (sess[c].pc = "listening" /\ sent[i].sock = sess[c].port)
                => sent[i].to = sess[c].first_src)

\* Two sessions have learned different peers, the first one has since taken
\* a datagram from another address, and each has sent a packet to its own
\* first peer.
C18_Witness ==
    /\ sess[1].received = 2
    /\ sess[1].last_src # sess[1].first_src
    /\ sess[2].received = 1
    /\ sess[2].remote_addr # sess[1].remote_addr
    /\ \E i, j \in DOMAIN sent :
        /\ sent[i].sock = sess[1].port /\ sent[i].to = sess[1].remote_addr
        /\ sent[j].sock = sess[2].port /\ sent[j].to = sess[2].remote_addr

(***************************************************************************)
(* The registry, under concurrent allocations and session tasks.           *)
(***************************************************************************)
\* C19: in every reachable state the Session Registry holds no port twice,
\* every entry is a port of [min_port, max_port] whose socket is bound and
\* held by a session in its receive loop, and a step only appends to the
\* registry: the entries it had stay, in their places.
C19_RegistryIntegrity ==
    /\ [](\A i, j \in DOMAIN active_sessions :
            i # j => active_sessions[i] # active_sessions[j])
    /\ [](\A i \in DOMAIN active_sessions :
            /\ active_sessions[i] >= min_port
            /\ active_sessions[i] <= max_port
            /\ active_sessions[i] \in bound
            /\ \E c \in Calls :
                sess[c].pc = "listening" /\ sess[c].port = active_sessions[i])
    /\ [][/\ Len(active_sessions') >= Len(active_sessions)
          /\ SubSeq(active_sessions', 1, Len(active_sessions)) = active_sessions]_vars

\* Two sessions have registered, the second after the first, while the
\* second allocation has not replied yet.
C19_Witness ==
    /\ Len(active_sessions) = 2
    /\ \E c, d \in Calls :
        /\ sess[c].pc = "listening" /\ sess[c].port = active_sessions[1]
        /\ sess[d].pc = "listening" /\ sess[d].port = active_sessions[2]
        /\ call[c].pc = "ok" /\ call[d].pc = "spawned"

=============================================================================
